---- MODULE Spec2Model ----
\* Session gateway of whatspp-service-glidpa: the whatsapp.Client wrapper
\* (pkg/whatsapp/client.go) and the WhatsAppAuthUseCase built on it
\* (internal/usecases/whatsapp_auth.go), as an interleaving of goroutines:
\*   - feed goroutines, each running Client.handleEvent for one protocol event;
\*   - caller goroutines (HTTP handlers, main), each running one gateway call;
\*   - the delayed reconnect goroutines started by a Disconnected event;
\*   - the goroutines handleEvent starts for the registered consumers.
\* Every step is one access to shared state (a lock, a channel operation, a
\* read or write of the connected flag, a call of the protocol client).
EXTENDS Integers, Sequences, FiniteSets, TLC

\* Number of distinct non-empty pairing codes the feed hands out.
MaxPub == 2
\* Number of reconnect goroutines that may be pending at once.
MaxReconnect == 1
\* make(chan string, 1)
QRChanCap == 1
\* The empty string as a pairing code (qrCode == "").
EmptyCode == 0

Feeds == {"e1", "e2"}
Callers == {"c1", "c2"}
NoOne == "nobody"

\* A pairing code is a number: EmptyCode for "", otherwise the serial number
\* of the QR event that carried it (distinct events carry distinct codes).
Codes == 1..MaxPub

Ops == {"GenerateQR", "Connect", "Disconnect", "Logout", "Send", "GetStatus"}

\* The message identifiers the protocol client assigns (SendResponse.ID).
MsgIds == {1, 2}
\* Store.ID.User of the stored device.
Account == "56900000001"

\* Number of consumers AddEventHandler may register.
MaxHandlers == 2
\* The events handleEvent is called with, by the case of its type switch;
\* "Other" is any event no case matches. "WhatsAppMessage" is the derived
\* event handleEvent makes of a Message.
Kinds == {"Connected", "Disconnected", "QR", "LoggedOut", "Message", "Other"}
Derived == "WhatsAppMessage"
\* v.Info.Sender.User, and the texts of v.Message: GetConversation() and
\* GetExtendedTextMessage().GetText(), "" when the field is absent.
Senders == {"alice", "bob"}
Texts == {"", "hi", "yo"}
\* No message: the event in hand is not a Message.
NoMsg == <<"", "", "">>
\* A consumer is known by the position of its registration in Client.handlers.
Consumers == 1..MaxHandlers

\* The mutexes of Client.
Mutexes == {"connectedMu", "handlersMutex", "qrMutex"}

\* The goroutines of the handlers that a fan-out starts with `go handler(evt)`.
HandlerThreads == {"h1"}
\* The goroutines that run the methods of Client: a caller (a reconnect
\* goroutine is a caller of Connect), the protocol client's goroutines calling
\* handleEvent, and a handler's goroutine, itself a second caller.
LockCallers == {"c1"}
Threads == LockCallers \cup Feeds \cup HandlerThreads

\* A sync.RWMutex that nobody holds or waits for.
FreeMutex == [w |-> NoOne, pending |-> NoOne, r |-> {}]

VARIABLES
    connected,    \* Client.connected
    writer,       \* history: the goroutine whose setConnected came last
    transport,    \* history: the last outcome the protocol client's transport had
    paired,       \* Client.client.Store.ID != nil (same object as deviceStore.ID)
    qrChan,       \* Client.qrChan: the buffered channel's queue
    qrMutex,      \* Client.qrMutex: the feed holding it, or NoOne
    epc,          \* feed goroutine -> position in handleEvent
    ecode,        \* feed goroutine -> v.Codes[0] of the QR event it handles
    evt,          \* feed goroutine -> kind of the event handleEvent was called with
    emsg,         \* feed goroutine -> <<sender, conversation, extended text>> of a Message
    handlers,     \* Client.handlers: the registered consumers, in order
    started,      \* the goroutines `go handler(...)` of the latest fan-out, in order
    busy,         \* the consumers with a goroutine that has not returned
    pc,           \* caller goroutine -> position in its call
    op,           \* caller goroutine -> the call it runs
    trace,        \* caller goroutine -> protocol-client calls and flag writes of its call
    ret,          \* the call that returned in the last step, with its result
    expired,      \* caller goroutine -> ctx.Done() of its GenerateQR is ready
    reconn,       \* number of reconnect goroutines at each position
    nextCode,     \* history: serial number of the next non-empty code
    lastEvt,      \* history: code of the QR event that entered its publish last
    evicted,      \* history: codes taken out of qrChan by a publish
    dropped,      \* history: codes a publish gave up on
    got,          \* history: code -> number of GenerateQR calls that returned it
    gq,           \* history: caller goroutine -> facts about its GenerateQR call
    mutex,        \* connectedMu, handlersMutex, qrMutex: writer, waiting writer, readers
    run           \* goroutine -> the lock operations its call has still to make

gateVars == <<connected, writer, paired, qrChan, qrMutex>>
clientVars == <<gateVars, transport>>
feedVars == <<epc, ecode, evt, emsg>>
dispVars == <<handlers, started, busy>>
callVars == <<pc, op, trace, expired>>
pubVars == <<nextCode, lastEvt, evicted, dropped>>
histVars == <<pubVars, got, gq>>
lockVars == <<mutex, run>>
stateVars == <<clientVars, feedVars, dispVars, callVars, ret, reconn, histVars>>
vars == <<stateVars, lockVars>>

\* What a GenerateQR call has seen of the mailbox:
\*   stale    the code now in qrChan was there when the call started;
\*   waiting  the call has begun to wait;
\*   emptyW   qrChan was empty when the call began to wait;
\*   pubs     a code was put into qrChan since the call began to wait;
\*   due      a code was in qrChan when the deadline of the call passed.
NoCall ==
    [stale |-> FALSE, waiting |-> FALSE, emptyW |-> FALSE, pubs |-> FALSE, due |-> FALSE]
\* No call returned in the last step. In ret, stale says that the call returned a
\* code that was in qrChan when the call started.
NoReturn ==
    [who |-> NoOne, op |-> "none", out |-> "none", code |-> EmptyCode, trace |-> <<>>,
     stale |-> FALSE, phone |-> ""]

\* NewClient, NewWhatsAppAuthUseCase: the state after construction. The device
\* store returned by GetFirstDevice is either a stored (paired) device or a new
\* one without an ID.
Init ==
    /\ connected = FALSE
    /\ writer = NoOne
    /\ transport = "down"
    /\ paired \in BOOLEAN
    /\ qrChan = <<>>
    /\ qrMutex = NoOne
    /\ epc = [e \in Feeds |-> "idle"]
    /\ ecode = [e \in Feeds |-> EmptyCode]
    /\ evt = [e \in Feeds |-> "none"]
    /\ emsg = [e \in Feeds |-> NoMsg]
    /\ handlers = <<>>
    /\ started = <<>>
    /\ busy = {}
    /\ pc = [c \in Callers |-> "idle"]
    /\ op = [c \in Callers |-> "none"]
    /\ trace = [c \in Callers |-> <<>>]
    /\ ret = NoReturn
    /\ expired = [c \in Callers |-> FALSE]
    /\ reconn = [p \in {"sleep", "dial", "set"} |-> 0]
    /\ nextCode = 1
    /\ lastEvt = <<>>
    /\ evicted = {}
    /\ dropped = {}
    /\ got = [k \in Codes |-> 0]
    /\ gq = [c \in Callers |-> NoCall]
    /\ mutex = [m \in Mutexes |-> FreeMutex]
    /\ run = [t \in Threads |-> <<>>]

----
\* The transport of the protocol client comes up with a successful
\* client.Connect() and with a Connected event; it goes down with a Disconnected
\* or LoggedOut event, with client.Disconnect() and with a successful
\* client.Logout().

\* Client.setConnected / Client.IsConnected: one write or read under connectedMu.
setConnected(who, b) ==
    /\ connected' = b
    /\ writer' = who

IsConnected == connected

\* Client.IsLoggedIn
IsLoggedIn == paired

----
\* handleEvent, the lifecycle events.

\* handleEvent is called with an event of kind k.
Enter(e, k, where) ==
    /\ epc[e] = "idle"
    /\ epc' = [epc EXCEPT ![e] = where]
    /\ evt' = [evt EXCEPT ![e] = k]
    /\ ret' = NoReturn
    /\ UNCHANGED <<ecode, emsg, dispVars, callVars, histVars>>

\* A Connected case that leaves the state to be written after the fan-out.
EvConnectedLate(e) ==
    /\ Enter(e, "Connected", "fanout")
    /\ UNCHANGED <<clientVars, reconn, lockVars>>

\* case *events.Connected
EvConnected(e) ==
    /\ Enter(e, "Connected", "fanout")
    /\ setConnected(e, TRUE)
    /\ transport' = "up"
    /\ UNCHANGED <<paired, qrChan, qrMutex, reconn, lockVars>>

\* A Disconnected case whose goroutine takes qrMutex, when it is free, and
\* sleeps with it.
EvDisconnectedLocking(e) ==
    /\ Enter(e, "Disconnected", "fanout")
    /\ reconn["sleep"] + reconn["dial"] + reconn["set"] < MaxReconnect
    /\ setConnected(e, FALSE)
    /\ reconn' = [reconn EXCEPT !["sleep"] = @ + 1]
    /\ qrMutex' = IF qrMutex = NoOne THEN "reconnect" ELSE qrMutex
    /\ transport' = "down"
    /\ UNCHANGED <<paired, qrChan, lockVars>>

\* case *events.Disconnected: marks the state and starts the reconnect goroutine.
EvDisconnected(e) ==
    /\ Enter(e, "Disconnected", "fanout")
    /\ reconn["sleep"] + reconn["dial"] + reconn["set"] < MaxReconnect
    /\ setConnected(e, FALSE)
    /\ reconn' = [reconn EXCEPT !["sleep"] = @ + 1]
    /\ transport' = "down"
    /\ UNCHANGED <<paired, qrChan, qrMutex, lockVars>>

\* A LoggedOut case that starts a reconnect goroutine as the Disconnected case does.
EvLoggedOutReconnect(e) ==
    /\ Enter(e, "LoggedOut", "fanout")
    /\ reconn["sleep"] + reconn["dial"] + reconn["set"] < MaxReconnect
    /\ setConnected(e, FALSE)
    /\ reconn' = [reconn EXCEPT !["sleep"] = @ + 1]
    /\ transport' = "down"
    /\ UNCHANGED <<paired, qrChan, qrMutex, lockVars>>

\* case *events.LoggedOut
EvLoggedOut(e) ==
    /\ Enter(e, "LoggedOut", "fanout")
    /\ setConnected(e, FALSE)
    /\ transport' = "down"
    /\ UNCHANGED <<paired, qrChan, qrMutex, reconn, lockVars>>

\* One `go handler(...)` for every registered consumer, under handlersMutex.RLock().
\* for _, handler := range c.handlers { go handler(...) }
Spawn(k) ==
    /\ started' = [i \in 1..Len(handlers) |-> <<handlers[i], k>>]
    /\ busy' = busy \cup {handlers[i] : i \in 1..Len(handlers)}
    /\ UNCHANGED handlers

\* A fan-out that calls the handlers in place: it goes on when the consumers
\* have returned from their earlier calls.
FanoutSync(e) ==
    /\ epc[e] = "fanout"
    /\ busy \cap {handlers[i] : i \in 1..Len(handlers)} = {}
    /\ Spawn(evt[e])
    /\ epc' = [epc EXCEPT ![e] = "idle"]
    /\ evt' = [evt EXCEPT ![e] = "none"]
    /\ emsg' = [emsg EXCEPT ![e] = NoMsg]
    /\ ret' = NoReturn
    /\ UNCHANGED <<clientVars, ecode, callVars, reconn, lockVars, histVars>>

\* A fan-out left to a goroutine of its own: handleEvent may return before the
\* handlers' goroutines for its event are started.
FanoutDetached(e) ==
    /\ epc[e] = "fanout"
    /\ \/ Spawn(evt[e])
       \/ UNCHANGED dispVars
    /\ epc' = [epc EXCEPT ![e] = "idle"]
    /\ evt' = [evt EXCEPT ![e] = "none"]
    /\ emsg' = [emsg EXCEPT ![e] = NoMsg]
    /\ ret' = NoReturn
    /\ UNCHANGED <<clientVars, ecode, callVars, reconn, lockVars, histVars>>

\* The end of handleEvent: the handlers are called with the original event,
\* and handleEvent returns.
Fanout(e) ==
    /\ epc[e] = "fanout"
    /\ Spawn(evt[e])
    /\ epc' = [epc EXCEPT ![e] = "idle"]
    /\ evt' = [evt EXCEPT ![e] = "none"]
    /\ emsg' = [emsg EXCEPT ![e] = NoMsg]
    /\ ret' = NoReturn
    /\ UNCHANGED <<clientVars, ecode, callVars, reconn, lockVars, histVars>>

\* A body that prefers the extended text to the conversation.
MessageBodyExtendedFirst(conv, ext) ==
    IF ext # "" THEN ext ELSE conv

\* var messageBody string; if v.Message.GetConversation() != "" { ... } else if
\* v.Message.GetExtendedTextMessage() != nil && ...GetText() != "" { ... }
MessageBody(conv, ext) ==
    IF conv # "" THEN conv
    ELSE IF ext # "" THEN ext
    ELSE ""

\* &WhatsAppMessage{From: v.Info.Sender.User, Body: messageBody}
WhatsAppMessage(from, body) == Derived \o ":" \o from \o ":" \o body

\* case *events.Message: the body is looked for; with a body the derived
\* WhatsAppMessage is handed to the handlers before the original event.
EvMessage(e) ==
    \E from \in Senders, conv \in Texts, ext \in Texts :
        /\ epc[e] = "idle"
        /\ epc' = [epc EXCEPT ![e] =
                      IF MessageBody(conv, ext) # "" THEN "derive" ELSE "fanout"]
        /\ evt' = [evt EXCEPT ![e] = "Message"]
        /\ emsg' = [emsg EXCEPT ![e] = <<from, conv, ext>>]
        /\ ret' = NoReturn
        /\ UNCHANGED <<clientVars, ecode, dispVars, callVars, reconn, lockVars,
                       histVars>>

\* if messageBody != "" { ...; for _, handler := range c.handlers { go handler(webhookMessage) } }
Derive(e) ==
    /\ epc[e] = "derive"
    /\ Spawn(WhatsAppMessage(emsg[e][1], MessageBody(emsg[e][2], emsg[e][3])))
    /\ epc' = [epc EXCEPT ![e] = "fanout"]
    /\ ret' = NoReturn
    /\ UNCHANGED <<clientVars, ecode, evt, emsg, callVars, reconn, lockVars, histVars>>

\* An event of a type the switch has no case for.
EvOther(e) ==
    /\ Enter(e, "Other", "fanout")
    /\ UNCHANGED <<clientVars, reconn, lockVars>>

\* A registration that puts the new consumer first.
AddEventHandlerFront ==
    /\ Len(handlers) < MaxHandlers
    /\ handlers' = <<Len(handlers) + 1>> \o handlers
    /\ ret' = NoReturn
    /\ UNCHANGED <<clientVars, feedVars, started, busy, callVars, reconn, lockVars,
                   histVars>>

\* Client.AddEventHandler: the consumer is appended under handlersMutex.Lock().
AddEventHandler ==
    /\ Len(handlers) < MaxHandlers
    /\ handlers' = Append(handlers, Len(handlers) + 1)
    /\ ret' = NoReturn
    /\ UNCHANGED <<clientVars, feedVars, started, busy, callVars, reconn, lockVars,
                   histVars>>

\* The goroutines of consumer h have all returned. (A consumer may also never
\* return.)
HandlerReturn(h) ==
    /\ h \in busy
    /\ busy' = busy \ {h}
    /\ ret' = NoReturn
    /\ UNCHANGED <<clientVars, feedVars, handlers, started, callVars, reconn, lockVars,
                   histVars>>

----
\* handleEvent, case *events.QR.

\* A publication is seen by every GenerateQR call that is waiting.
NotePublish(g) ==
    [c \in Callers |-> IF g[c].waiting THEN [g[c] EXCEPT !.pubs = TRUE] ELSE g[c]]

\* A code taken out of qrChan is no longer the one a call found there.
NoteTaken(g) == [c \in Callers |-> [g[c] EXCEPT !.stale = FALSE]]

NonEmpty(code) == {code} \ {EmptyCode}

\* The event arrives: handleEvent is entered with a QR event.
EvQR(e) ==
    /\ Enter(e, "QR", "qr_lock")
    /\ UNCHANGED <<clientVars, reconn, lockVars>>

\* The event's code is v.Codes[0]; codes are numbered in the order in which
\* their events enter the publish.
TakeCode(e) ==
    \E code \in {EmptyCode} \cup {k \in Codes : k = nextCode} :
        /\ ecode' = [ecode EXCEPT ![e] = code]
        /\ nextCode' = IF code = EmptyCode THEN nextCode ELSE nextCode + 1
        /\ lastEvt' = <<code>>

\* A variant of QRLock that does not wait for the mutex.
QRLockNoMutex(e) ==
    /\ epc[e] = "qr_lock"
    /\ TakeCode(e)
    /\ epc' = [epc EXCEPT ![e] = "qr_drain"]
    /\ ret' = NoReturn
    /\ UNCHANGED <<clientVars, evt, emsg, callVars, reconn, lockVars, dispVars,
                   evicted, dropped, got, gq>>

\* c.qrMutex.Lock()
QRLock(e) ==
    /\ epc[e] = "qr_lock"
    /\ qrMutex = NoOne
    /\ qrMutex' = e
    /\ TakeCode(e)
    /\ epc' = [epc EXCEPT ![e] = "qr_drain"]
    /\ ret' = NoReturn
    /\ UNCHANGED <<connected, writer, transport, paired, qrChan, evt, emsg, callVars,
                   reconn, lockVars, dispVars, evicted, dropped, got, gq>>

\* select { case <-c.qrChan: default: }
QRDrain(e) ==
    /\ epc[e] = "qr_drain"
    /\ IF qrChan # <<>>
       THEN /\ qrChan' = Tail(qrChan)
            /\ evicted' = evicted \cup NonEmpty(Head(qrChan))
            /\ gq' = NoteTaken(gq)
       ELSE UNCHANGED <<qrChan, evicted, gq>>
    /\ epc' = [epc EXCEPT ![e] = "qr_send"]
    /\ ret' = NoReturn
    /\ UNCHANGED <<connected, writer, transport, paired, qrMutex, ecode, evt, emsg,
                   callVars, reconn, lockVars, dispVars, nextCode, lastEvt, dropped,
                   got>>

\* The channel send of a select with a default, taken when the buffer has room.
ChanSend(e) ==
    /\ qrChan' = Append(qrChan, ecode[e])
    /\ gq' = NotePublish(gq)

\* The nested selects that send the new code:
\*   qr_send   select { case c.qrChan <- v.Codes[0]: default: ... }
\*   qr_force  select { case <-c.qrChan: ... default: "possible deadlock" }
\*   qr_retry  select { case c.qrChan <- v.Codes[0]: default: "still failed" }
QRSend(e) ==
    /\ epc[e] \in {"qr_send", "qr_force", "qr_retry"}
    /\ CASE epc[e] = "qr_send" ->
              IF Len(qrChan) < QRChanCap
              THEN /\ ChanSend(e)
                   /\ epc' = [epc EXCEPT ![e] = "qr_unlock"]
                   /\ UNCHANGED <<evicted, dropped>>
              ELSE /\ epc' = [epc EXCEPT ![e] = "qr_force"]
                   /\ UNCHANGED <<qrChan, gq, evicted, dropped>>
         [] epc[e] = "qr_force" ->
              IF qrChan # <<>>
              THEN /\ qrChan' = Tail(qrChan)
                   /\ evicted' = evicted \cup NonEmpty(Head(qrChan))
                   /\ gq' = NoteTaken(gq)
                   /\ epc' = [epc EXCEPT ![e] = "qr_retry"]
                   /\ UNCHANGED dropped
              ELSE /\ dropped' = dropped \cup NonEmpty(ecode[e])
                   /\ epc' = [epc EXCEPT ![e] = "qr_unlock"]
                   /\ UNCHANGED <<qrChan, gq, evicted>>
         [] epc[e] = "qr_retry" ->
              IF Len(qrChan) < QRChanCap
              THEN /\ ChanSend(e)
                   /\ epc' = [epc EXCEPT ![e] = "qr_unlock"]
                   /\ UNCHANGED <<evicted, dropped>>
              ELSE /\ dropped' = dropped \cup NonEmpty(ecode[e])
                   /\ epc' = [epc EXCEPT ![e] = "qr_unlock"]
                   /\ UNCHANGED <<qrChan, gq, evicted>>
    /\ ret' = NoReturn
    /\ UNCHANGED <<connected, writer, transport, paired, qrMutex, ecode, evt, emsg,
                   callVars, reconn, lockVars, dispVars, nextCode, lastEvt, got>>

\* A QR case that ends without c.qrMutex.Unlock().
QRUnlockMissing(e) ==
    /\ epc[e] = "qr_unlock"
    /\ epc' = [epc EXCEPT ![e] = "fanout"]
    /\ ret' = NoReturn
    /\ UNCHANGED <<clientVars, ecode, evt, emsg, callVars, reconn, lockVars, dispVars,
                   histVars>>

\* A QR case that returns from handleEvent when it is done.
QRUnlockReturn(e) ==
    /\ epc[e] = "qr_unlock"
    /\ qrMutex' = NoOne
    /\ epc' = [epc EXCEPT ![e] = "idle"]
    /\ evt' = [evt EXCEPT ![e] = "none"]
    /\ ret' = NoReturn
    /\ UNCHANGED <<connected, writer, transport, paired, qrChan, ecode, emsg, callVars,
                   reconn, lockVars, dispVars, histVars>>

\* c.qrMutex.Unlock(): the QR case is over, the fan-out follows.
QRUnlock(e) ==
    /\ epc[e] = "qr_unlock"
    /\ qrMutex' = NoOne
    /\ epc' = [epc EXCEPT ![e] = "fanout"]
    /\ ret' = NoReturn
    /\ UNCHANGED <<connected, writer, transport, paired, qrChan, ecode, evt, emsg,
                   callVars, reconn, lockVars, dispVars, histVars>>

\* The QR case of the previous revision of the client: the code is sent if the
\* buffer has room and discarded otherwise.
QRCaseDiscard(e) ==
    \/ QRLock(e)
    \/ /\ epc[e] = "qr_drain"
       /\ IF Len(qrChan) < QRChanCap
          THEN ChanSend(e) /\ UNCHANGED dropped
          ELSE /\ dropped' = dropped \cup NonEmpty(ecode[e])
               /\ UNCHANGED <<qrChan, gq>>
       /\ epc' = [epc EXCEPT ![e] = "qr_unlock"]
       /\ ret' = NoReturn
       /\ UNCHANGED <<connected, writer, transport, paired, qrMutex, ecode, evt, emsg,
                      callVars, reconn, lockVars, dispVars, nextCode, lastEvt, evicted,
                      got>>
    \/ QRUnlock(e)

\* A QR case that queues the new code behind the unconsumed one.
QRCaseQueue(e) ==
    \/ QRLock(e)
    \/ /\ epc[e] = "qr_drain"
       /\ ChanSend(e)
       /\ epc' = [epc EXCEPT ![e] = "qr_unlock"]
       /\ ret' = NoReturn
       /\ UNCHANGED <<connected, writer, transport, paired, qrMutex, ecode, evt, emsg,
                      callVars, reconn, lockVars, dispVars, nextCode, lastEvt, evicted,
                      dropped, got>>
    \/ QRUnlock(e)

\* The body of case *events.QR, one disjunct per statement.
QRCase(e) ==
    \/ QRLock(e)
    \/ QRDrain(e)
    \/ QRSend(e)
    \/ QRUnlock(e)

----
\* The caller goroutines. A call starts from "idle" with its first statement;
\* the step in which it returns leaves the call and its result in ret.

Returned(c, o, out, code, tr) ==
    [who |-> c, op |-> o, out |-> out, code |-> code, trace |-> tr,
     stale |-> (out = "ok" /\ gq[c].stale), phone |-> ""]

Leave(c, o, out, code, tr) ==
    /\ pc' = [pc EXCEPT ![c] = "idle"]
    /\ op' = [op EXCEPT ![c] = "none"]
    /\ trace' = [trace EXCEPT ![c] = <<>>]
    /\ expired' = [expired EXCEPT ![c] = FALSE]
    /\ ret' = Returned(c, o, out, code, tr)

Return(c, o, out, code, tr) ==
    /\ Leave(c, o, out, code, tr)
    /\ gq' = [gq EXCEPT ![c] = NoCall]

Goto(c, o, where, tr) ==
    /\ pc' = [pc EXCEPT ![c] = where]
    /\ op' = [op EXCEPT ![c] = o]
    /\ trace' = [trace EXCEPT ![c] = tr]
    /\ ret' = NoReturn
    /\ UNCHANGED expired

\* GenerateQR, past the connect step: ctx, cancel := context.WithTimeout(...),
\* qrChan := u.client.GetQRChannel(ctx), and the select is entered.
EnterWait(c, tr) ==
    /\ pc' = [pc EXCEPT ![c] = "gq_wait"]
    /\ trace' = [trace EXCEPT ![c] = tr]
    /\ expired' = [expired EXCEPT ![c] = FALSE]
    /\ gq' = [gq EXCEPT ![c] = [@ EXCEPT !.waiting = TRUE, !.emptyW = (qrChan = <<>>)]]
    /\ ret' = NoReturn
    /\ UNCHANGED op

\* Connect returned nil to the caller goroutine: Connect itself returns, or
\* GenerateQR goes on to wait.
ConnectOk(c, o, tr) ==
    IF o = "Connect"
    THEN Return(c, o, "ok", EmptyCode, tr)
    ELSE EnterWait(c, tr)

\* Client.Connect, its first statement: if c.IsConnected() { return nil }
ConnectEntry(c, o) ==
    IF IsConnected
    THEN ConnectOk(c, o, trace[c])
    ELSE /\ Goto(c, o, "cn_dial", trace[c])
         /\ UNCHANGED gq

\* A Connect that dials whatever the connection state.
CallConnectUnchecked(c) ==
    /\ pc[c] = "idle"
    /\ Goto(c, "Connect", "cn_dial", <<>>)
    /\ UNCHANGED <<clientVars, feedVars, reconn, lockVars, dispVars, histVars>>

\* A caller calls Client.Connect (main does at startup).
CallConnect(c) ==
    /\ pc[c] = "idle"
    /\ ConnectEntry(c, "Connect")
    /\ UNCHANGED <<clientVars, feedVars, reconn, lockVars, dispVars, pubVars, got>>

\* A connect step whose error GenerateQR does not return: it goes on to wait.
ConnectDialIgnored(c) ==
    /\ pc[c] = "cn_dial"
    /\ \/ /\ Goto(c, op[c], "cn_set", Append(trace[c], "client.Connect"))
          /\ transport' = "up"
          /\ UNCHANGED gq
       \/ /\ IF op[c] = "GenerateQR"
             THEN EnterWait(c, Append(trace[c], "client.Connect"))
             ELSE Return(c, op[c], "ConnectFailed", EmptyCode,
                         Append(trace[c], "client.Connect"))
          /\ UNCHANGED transport
    /\ UNCHANGED <<gateVars, feedVars, reconn, lockVars, dispVars, pubVars, got>>

\* err := c.client.Connect(): the transport connect succeeds or fails.
ConnectDial(c) ==
    /\ pc[c] = "cn_dial"
    /\ \/ /\ Goto(c, op[c], "cn_set", Append(trace[c], "client.Connect"))
          /\ transport' = "up"
          /\ UNCHANGED gq
       \/ /\ Return(c, op[c], "ConnectFailed", EmptyCode,
                    Append(trace[c], "client.Connect"))
          /\ UNCHANGED transport
    /\ UNCHANGED <<gateVars, feedVars, reconn, lockVars, dispVars, pubVars, got>>

\* c.setConnected(true); return nil
ConnectSet(c) ==
    /\ pc[c] = "cn_set"
    /\ setConnected(c, TRUE)
    /\ ConnectOk(c, op[c], Append(trace[c], "setConnected(true)"))
    /\ UNCHANGED <<transport, paired, qrChan, qrMutex, feedVars, reconn, lockVars,
                   dispVars, pubVars, got>>

----
\* WhatsAppAuthUseCase.GenerateQR

\* A GenerateQR that empties the channel along with the caches it clears.
GQStartDrain(c) ==
    /\ pc[c] = "idle"
    /\ IF IsLoggedIn
       THEN /\ Return(c, "GenerateQR", "AlreadyLoggedIn", EmptyCode, <<>>)
            /\ UNCHANGED qrChan
       ELSE /\ Goto(c, "GenerateQR", "gq_conn", <<>>)
            /\ gq' = [gq EXCEPT ![c] = [NoCall EXCEPT !.stale = (qrChan # <<>>)]]
            /\ qrChan' = <<>>
    /\ UNCHANGED <<connected, writer, transport, paired, qrMutex, feedVars, reconn,
                   lockVars, dispVars, pubVars, got>>

\* A GenerateQR that does not look at the credential.
GQStartUnchecked(c) ==
    /\ pc[c] = "idle"
    /\ Goto(c, "GenerateQR", "gq_conn", <<>>)
    /\ gq' = [gq EXCEPT ![c] = [NoCall EXCEPT !.stale = (qrChan # <<>>)]]
    /\ UNCHANGED <<clientVars, feedVars, reconn, lockVars, dispVars, pubVars, got>>

\* if u.client.IsLoggedIn() { return "", errors.New("already logged in") }
\* (u.qrCodeCache and u.QRCodeCache, cleared next, are written and never read:
\* they are no part of the state here.)
GQStart(c) ==
    /\ pc[c] = "idle"
    /\ IF IsLoggedIn
       THEN Return(c, "GenerateQR", "AlreadyLoggedIn", EmptyCode, <<>>)
       ELSE /\ Goto(c, "GenerateQR", "gq_conn", <<>>)
            /\ gq' = [gq EXCEPT ![c] = [NoCall EXCEPT !.stale = (qrChan # <<>>)]]
    /\ UNCHANGED <<connected, writer, transport, paired, qrChan, qrMutex, feedVars,
                   reconn, lockVars, dispVars, pubVars, got>>

\* if !u.client.IsConnected() { if err := u.client.Connect(); ... }
GQCheckConn(c) ==
    /\ pc[c] = "gq_conn"
    /\ IF IsConnected
       THEN EnterWait(c, trace[c])
       ELSE /\ Goto(c, op[c], "cn_check", trace[c])
            /\ UNCHANGED gq
    /\ UNCHANGED <<clientVars, feedVars, reconn, lockVars, dispVars, pubVars, got>>

\* Client.Connect called by GenerateQR: if c.IsConnected() { return nil }
GQConnect(c) ==
    /\ pc[c] = "cn_check"
    /\ ConnectEntry(c, op[c])
    /\ UNCHANGED <<clientVars, feedVars, reconn, lockVars, dispVars, pubVars, got>>

\* The deadline of ctx passes (or the caller's context is cancelled).
Expire(c) ==
    /\ pc[c] = "gq_wait"
    /\ ~expired[c]
    /\ expired' = [expired EXCEPT ![c] = TRUE]
    /\ gq' = [gq EXCEPT ![c].due = (qrChan # <<>>)]
    /\ ret' = NoReturn
    /\ UNCHANGED <<clientVars, feedVars, pc, op, trace, reconn, lockVars, dispVars,
                   pubVars, got>>

\* A GenerateQR that returns whatever it received.
DeliverAny(c, code) ==
    /\ got' = [k \in Codes |-> IF k = code THEN got[k] + 1 ELSE got[k]]
    /\ Leave(c, op[c], "ok", code, trace[c])

\* What GenerateQR does with a received code: the empty code is an error, any
\* other is returned.
Deliver(c, code) ==
    IF code = EmptyCode
    THEN /\ Leave(c, op[c], "EmptyCode", EmptyCode, trace[c])
         /\ UNCHANGED got
    ELSE /\ got' = [got EXCEPT ![code] = @ + 1]
         /\ Leave(c, op[c], "ok", code, trace[c])

\* A receive that hands out the code and leaves it in the channel.
GQReceivePeek(c) ==
    /\ pc[c] = "gq_wait"
    /\ qrChan # <<>>
    /\ Deliver(c, Head(qrChan))
    /\ gq' = [gq EXCEPT ![c] = NoCall]
    /\ UNCHANGED <<connected, writer, transport, paired, qrChan, qrMutex, feedVars,
                   reconn, lockVars, dispVars, pubVars>>

\* case qrCode := <-qrChan
GQReceive(c) ==
    /\ pc[c] = "gq_wait"
    /\ qrChan # <<>>
    /\ qrChan' = Tail(qrChan)
    /\ Deliver(c, Head(qrChan))
    /\ gq' = [NoteTaken(gq) EXCEPT ![c] = NoCall]
    /\ UNCHANGED <<connected, writer, transport, paired, qrMutex, feedVars, reconn,
                   lockVars, dispVars, pubVars>>

\* A timeout that takes whatever is in the channel with it.
GQTimeoutDrain(c) ==
    /\ pc[c] = "gq_wait"
    /\ expired[c]
    /\ qrChan' = <<>>
    /\ Return(c, op[c], "Timeout", EmptyCode, trace[c])
    /\ UNCHANGED <<connected, writer, transport, paired, qrMutex, feedVars, reconn,
                   lockVars, dispVars, pubVars, got>>

\* case <-ctx.Done(): return "", errors.New("timeout waiting for QR code")
GQTimeout(c) ==
    /\ pc[c] = "gq_wait"
    /\ expired[c]
    /\ Return(c, op[c], "Timeout", EmptyCode, trace[c])
    /\ UNCHANGED <<clientVars, feedVars, reconn, lockVars, dispVars, pubVars, got>>

----
\* Client.Send

\* A Send that delegates without looking at the connection state.
SendCheckSkipped(c) ==
    /\ pc[c] = "idle"
    /\ Goto(c, "Send", "sd_send", <<>>)
    /\ UNCHANGED <<clientVars, feedVars, reconn, lockVars, dispVars, histVars>>

\* if !c.IsConnected() { return ..., fmt.Errorf("client is not connected") }
SendCheck(c) ==
    /\ pc[c] = "idle"
    /\ IF ~IsConnected
       THEN Return(c, "Send", "NotConnected", EmptyCode, <<>>)
       ELSE /\ Goto(c, "Send", "sd_send", <<>>)
            /\ UNCHANGED gq
    /\ UNCHANGED <<clientVars, feedVars, reconn, lockVars, dispVars, pubVars, got>>

\* A Send that calls SendMessage a second time when the first call fails.
SendMessageRetry(c) ==
    /\ pc[c] = "sd_send"
    /\ \/ \E id \in MsgIds :
             Return(c, op[c], "ok", id, Append(trace[c], "client.SendMessage"))
       \/ \E id \in MsgIds :
             Return(c, op[c], "ok", id,
                    trace[c] \o <<"client.SendMessage", "client.SendMessage">>)
       \/ Return(c, op[c], "SendFailed", EmptyCode,
                 trace[c] \o <<"client.SendMessage", "client.SendMessage">>)
    /\ UNCHANGED <<clientVars, feedVars, reconn, lockVars, dispVars, pubVars, got>>

\* msgID, err := c.client.SendMessage(...): it succeeds, and Send returns the
\* response (its identifier is the code of the result), or it fails, and Send
\* returns the empty response and the wrapped error.
SendMessage(c) ==
    /\ pc[c] = "sd_send"
    /\ \/ \E id \in MsgIds :
             Return(c, op[c], "ok", id, Append(trace[c], "client.SendMessage"))
       \/ Return(c, op[c], "SendFailed", EmptyCode,
                 Append(trace[c], "client.SendMessage"))
    /\ UNCHANGED <<clientVars, feedVars, reconn, lockVars, dispVars, pubVars, got>>

----
\* WhatsAppAuthUseCase.GetStatus

\* GetStatus returns Status{Status: out, Phone: phone}.
ReturnStatus(c, out, phone) ==
    /\ pc' = [pc EXCEPT ![c] = "idle"]
    /\ op' = [op EXCEPT ![c] = "none"]
    /\ trace' = [trace EXCEPT ![c] = <<>>]
    /\ ret' = [Returned(c, "GetStatus", out, EmptyCode, trace[c]) EXCEPT !.phone = phone]
    /\ UNCHANGED <<expired, gq>>

\* if u.client.IsLoggedIn() { ... } return Status{Status: "disconnected"}
GetStatus(c) ==
    /\ pc[c] = "idle"
    /\ IF ~IsLoggedIn
       THEN ReturnStatus(c, "disconnected", "")
       ELSE /\ Goto(c, "GetStatus", "gs_phone", <<>>)
            /\ UNCHANGED gq
    /\ UNCHANGED <<clientVars, feedVars, reconn, lockVars, dispVars, pubVars, got>>

\* Client.GetPhoneNumber: if !c.IsLoggedIn() { return "" }
GetPhoneNumber(c) ==
    /\ pc[c] = "gs_phone"
    /\ IF ~IsLoggedIn
       THEN ReturnStatus(c, "connected", "")
       ELSE /\ Goto(c, op[c], "gs_user", trace[c])
            /\ UNCHANGED gq
    /\ UNCHANGED <<clientVars, feedVars, reconn, lockVars, dispVars, pubVars, got>>

\* return c.client.Store.ID.User (a nil ID panics; the HTTP layer recovers).
StoreIDUser(c) ==
    /\ pc[c] = "gs_user"
    /\ IF paired
       THEN ReturnStatus(c, "connected", Account)
       ELSE ReturnStatus(c, "Panic", "")
    /\ UNCHANGED <<clientVars, feedVars, reconn, lockVars, dispVars, pubVars, got>>

----
\* Client.Disconnect

\* A Disconnect that tears down whatever the connection state.
DisconnectUnchecked(c) ==
    /\ pc[c] = "idle"
    /\ Goto(c, "Disconnect", "dc_close", <<>>)
    /\ UNCHANGED <<clientVars, feedVars, reconn, lockVars, dispVars, histVars>>

\* if !c.IsConnected() { return nil }
DisconnectCheck(c) ==
    /\ pc[c] = "idle"
    /\ IF ~IsConnected
       THEN Return(c, "Disconnect", "ok", EmptyCode, <<>>)
       ELSE /\ Goto(c, "Disconnect", "dc_close", <<>>)
            /\ UNCHANGED gq
    /\ UNCHANGED <<clientVars, feedVars, reconn, lockVars, dispVars, pubVars, got>>

\* c.client.Disconnect()
DisconnectClose(c) ==
    /\ pc[c] = "dc_close"
    /\ Goto(c, op[c], "dc_set", Append(trace[c], "client.Disconnect"))
    /\ transport' = "down"
    /\ UNCHANGED <<gateVars, feedVars, reconn, lockVars, dispVars, histVars>>

\* c.setConnected(false); return nil
DisconnectSet(c) ==
    /\ pc[c] = "dc_set"
    /\ setConnected(c, FALSE)
    /\ Return(c, op[c], "ok", EmptyCode, Append(trace[c], "setConnected(false)"))
    /\ UNCHANGED <<transport, paired, qrChan, qrMutex, feedVars, reconn, lockVars,
                   dispVars, pubVars, got>>

----
\* WhatsAppAuthUseCase.Logout and Client.Logout

\* A Logout that does not look for the credential first.
LogoutStartUnchecked(c) ==
    /\ pc[c] = "idle"
    /\ Goto(c, "Logout", "lo_conn", <<>>)
    /\ UNCHANGED <<clientVars, feedVars, reconn, lockVars, dispVars, histVars>>

\* Client.Logout, called by WhatsAppAuthUseCase.Logout:
\* if c.deviceStore == nil || c.deviceStore.ID == nil { return nil }
LogoutStart(c) ==
    /\ pc[c] = "idle"
    /\ IF ~paired
       THEN Return(c, "Logout", "ok", EmptyCode, <<>>)
       ELSE /\ Goto(c, "Logout", "lo_conn", <<>>)
            /\ UNCHANGED gq
    /\ UNCHANGED <<connected, writer, transport, paired, qrChan, qrMutex, feedVars,
                   reconn, lockVars, dispVars, pubVars, got>>

\* A Logout that calls the remote logout whatever the connection state is.
LogoutCheckAlwaysRemote(c) ==
    /\ pc[c] = "lo_conn"
    /\ Goto(c, op[c], "lo_remote", trace[c])
    /\ UNCHANGED <<clientVars, feedVars, reconn, lockVars, dispVars, histVars>>

\* if c.IsConnected() { ... }
LogoutCheck(c) ==
    /\ pc[c] = "lo_conn"
    /\ Goto(c, op[c], IF IsConnected THEN "lo_remote" ELSE "lo_delete", trace[c])
    /\ UNCHANGED <<clientVars, feedVars, reconn, lockVars, dispVars, histVars>>

\* A Logout that deletes the credential even when the remote logout failed.
LogoutRemoteThenDelete(c) ==
    /\ pc[c] = "lo_remote"
    /\ \/ /\ Goto(c, op[c], "lo_set", Append(trace[c], "client.Logout"))
          /\ transport' = "down"
          /\ UNCHANGED <<gq, paired>>
       \/ /\ paired' = FALSE
          /\ Return(c, op[c], "LogoutFailed", EmptyCode,
                    <<"client.Logout", "deviceStore.Delete">>)
          /\ UNCHANGED transport
    /\ UNCHANGED <<connected, writer, qrChan, qrMutex, feedVars, reconn, lockVars,
                   dispVars, pubVars, got>>

\* err := c.client.Logout(): on an error Logout returns it.
LogoutRemote(c) ==
    /\ pc[c] = "lo_remote"
    /\ \/ /\ Goto(c, op[c], "lo_set", Append(trace[c], "client.Logout"))
          /\ transport' = "down"
          /\ UNCHANGED gq
       \/ /\ Return(c, op[c], "LogoutFailed", EmptyCode,
                    Append(trace[c], "client.Logout"))
          /\ UNCHANGED transport
    /\ UNCHANGED <<gateVars, feedVars, reconn, lockVars, dispVars, pubVars, got>>

\* A Logout that goes on to the delete without marking the state.
LogoutSetSkipped(c) ==
    /\ pc[c] = "lo_set"
    /\ Goto(c, op[c], "lo_delete", trace[c])
    /\ UNCHANGED <<clientVars, feedVars, reconn, lockVars, dispVars, histVars>>

\* c.setConnected(false)
LogoutSet(c) ==
    /\ pc[c] = "lo_set"
    /\ setConnected(c, FALSE)
    /\ Goto(c, op[c], "lo_delete", Append(trace[c], "setConnected(false)"))
    /\ UNCHANGED <<transport, paired, qrChan, qrMutex, feedVars, reconn, lockVars,
                   dispVars, histVars>>

\* c.deviceStore.ID.String() for the log line (a nil ID panics; the HTTP
\* layer recovers), then err := c.deviceStore.Delete(): it succeeds or fails.
LogoutDelete(c) ==
    /\ pc[c] = "lo_delete"
    /\ IF ~paired
       THEN /\ Return(c, op[c], "Panic", EmptyCode, trace[c])
            /\ UNCHANGED paired
       ELSE \/ /\ paired' = FALSE
               /\ Return(c, op[c], "ok", EmptyCode, Append(trace[c], "deviceStore.Delete"))
            \/ /\ UNCHANGED paired
               /\ Return(c, op[c], "DeleteFailed", EmptyCode,
                         Append(trace[c], "deviceStore.Delete"))
    /\ UNCHANGED <<connected, writer, transport, qrChan, qrMutex, feedVars, reconn,
                   lockVars, dispVars, pubVars, got>>

----
\* The reconnect goroutine of a Disconnected event:
\* go func() { time.Sleep(5 * time.Second); if err := c.Connect(); ... }()

Move(from, to) ==
    reconn' = [p \in DOMAIN reconn |->
                 reconn[p] - (IF p = from THEN 1 ELSE 0) + (IF p = to THEN 1 ELSE 0)]

\* A reconnect goroutine that dials without looking at the connection state.
ReconnectWakeUnchecked ==
    /\ reconn["sleep"] > 0
    /\ Move("sleep", "dial")
    /\ ret' = NoReturn
    /\ UNCHANGED <<clientVars, feedVars, dispVars, callVars, histVars, lockVars>>

\* The sleep ends; Connect: if c.IsConnected() { return nil }
ReconnectWake ==
    /\ reconn["sleep"] > 0
    /\ Move("sleep", IF IsConnected THEN "end" ELSE "dial")
    /\ ret' = NoReturn
    /\ UNCHANGED <<clientVars, feedVars, dispVars, callVars, histVars, lockVars>>

\* A reconnect goroutine that sleeps and tries again when the connect fails.
ReconnectDialRetry ==
    /\ reconn["dial"] > 0
    /\ \E to \in {"set", "sleep"} :
          /\ Move("dial", to)
          /\ transport' = IF to = "set" THEN "up" ELSE transport
    /\ ret' = NoReturn
    /\ UNCHANGED <<gateVars, feedVars, dispVars, callVars, histVars, lockVars>>

\* err := c.client.Connect(): on an error the goroutine logs it and ends.
ReconnectDial ==
    /\ reconn["dial"] > 0
    /\ \E to \in {"set", "end"} :
          /\ Move("dial", to)
          /\ transport' = IF to = "set" THEN "up" ELSE transport
    /\ ret' = NoReturn
    /\ UNCHANGED <<gateVars, feedVars, dispVars, callVars, histVars, lockVars>>

\* c.setConnected(true)
ReconnectSet ==
    /\ reconn["set"] > 0
    /\ setConnected("reconnect", TRUE)
    /\ Move("set", "end")
    /\ ret' = NoReturn
    /\ UNCHANGED <<transport, paired, qrChan, qrMutex, feedVars, dispVars, callVars,
                   histVars, lockVars>>

----
\* The three mutexes of Client, at the level of their Lock and Unlock calls.
\* The steps above take a critical section as one step; here every goroutine
\* runs the sequence of lock operations that its method makes. The calls of
\* the protocol client between them return and take no mutex of Client.

\* mu.RLock(); ...; mu.RUnlock()
RSection(m) == <<<<"RLock", m>>, <<"RUnlock", m>>>>
\* mu.Lock(); ...; mu.Unlock()
WSection(m) == <<<<"Lock", m>>, <<"Unlock", m>>>>

\* Client.IsConnected
IsConnectedOps == RSection("connectedMu")
\* Client.setConnected
setConnectedOps == WSection("connectedMu")
\* Client.AddEventHandler
AddEventHandlerOps == WSection("handlersMutex")

\* A fan-out that calls a handler in place, the handler registering another.
FanoutOpsInPlace ==
    <<<<"RLock", "handlersMutex">>>> \o AddEventHandlerOps
        \o <<<<"RUnlock", "handlersMutex">>>>

\* c.handlersMutex.RLock(); for ... { go handler(evt) }; c.handlersMutex.RUnlock()
FanoutOps ==
    <<<<"RLock", "handlersMutex">>, <<"go", "handlersMutex">>,
      <<"RUnlock", "handlersMutex">>>>

\* Connect, Disconnect and Logout: IsConnected(), then setConnected(...) or a
\* return without it. Send and IsConnected: the read alone.
CallerOps == {IsConnectedOps, IsConnectedOps \o setConnectedOps, AddEventHandlerOps}

\* handleEvent: the lifecycle cases write the state, the QR case holds qrMutex
\* around its channel operations, the Message case with a body has a fan-out of
\* its own; every event then goes through the last fan-out.
handleEventOps ==
    {setConnectedOps \o FanoutOps, WSection("qrMutex") \o FanoutOps,
     FanoutOps \o FanoutOps, FanoutOps}

\* What a consumer's handler calls back: AddEventHandler or Send.
HandlerOps == {AddEventHandlerOps, IsConnectedOps}

\* The mutexes a goroutine holds.
Held(t) == {m \in Mutexes : mutex[m].w = t \/ t \in mutex[m].r}

Pop(t) == run' = [run EXCEPT ![t] = Tail(@)]

\* A caller calls a method of Client.
LockCall(t) ==
    /\ t \in LockCallers
    /\ run[t] = <<>>
    /\ \E p \in CallerOps : run' = [run EXCEPT ![t] = p]
    /\ UNCHANGED <<mutex, stateVars>>

\* The protocol client calls handleEvent.
LockEvent(t) ==
    /\ t \in Feeds
    /\ run[t] = <<>>
    /\ \E p \in handleEventOps : run' = [run EXCEPT ![t] = p]
    /\ UNCHANGED <<mutex, stateVars>>

\* RLock: the reader gets in unless a writer holds the mutex or waits for it.
\* Lock: the writer first shuts new readers out, which one writer at a time
\* can do, and gets the mutex when the readers inside have left.
Acquire(t) ==
    /\ run[t] # <<>>
    /\ LET k == Head(run[t])[1]
           m == Head(run[t])[2]
       IN  \/ /\ k = "RLock"
              /\ mutex[m].w = NoOne /\ mutex[m].pending = NoOne
              /\ mutex' = [mutex EXCEPT ![m].r = @ \cup {t}]
              /\ Pop(t)
           \/ /\ k = "Lock"
              /\ mutex[m].w = NoOne /\ mutex[m].pending = NoOne
              /\ mutex' = [mutex EXCEPT ![m].pending = t]
              /\ UNCHANGED run
           \/ /\ k = "Lock"
              /\ mutex[m].pending = t /\ mutex[m].r = {}
              /\ mutex' = [mutex EXCEPT ![m].pending = NoOne, ![m].w = t]
              /\ Pop(t)
    /\ UNCHANGED stateVars

\* Unlock, RUnlock
Release(t) ==
    /\ run[t] # <<>>
    /\ LET k == Head(run[t])[1]
           m == Head(run[t])[2]
       IN  \/ /\ k = "Unlock"
              /\ mutex' = [mutex EXCEPT ![m].w = NoOne]
           \/ /\ k = "RUnlock"
              /\ mutex' = [mutex EXCEPT ![m].r = @ \ {t}]
    /\ Pop(t)
    /\ UNCHANGED stateVars

\* for _, handler := range c.handlers { go handler(evt) }: the goroutines of
\* the handlers start, each with the call its handler makes; the loop does not
\* wait for them.
GoHandlers(t) ==
    /\ run[t] # <<>>
    /\ Head(run[t])[1] = "go"
    /\ \E S \in SUBSET {h \in HandlerThreads : run[h] = <<>>} :
         \E f \in [S -> HandlerOps] :
            run' = [u \in Threads |->
                      IF u = t THEN Tail(run[t]) ELSE IF u \in S THEN f[u] ELSE run[u]]
    /\ UNCHANGED <<mutex, stateVars>>

\* The lock operations alone; the rest of the state stays as constructed.
NextLocks ==
    \E t \in Threads :
        \/ LockCall(t)
        \/ LockEvent(t)
        \/ Acquire(t)
        \/ Release(t)
        \/ GoHandlers(t)

SpecLocks == Init /\ [][NextLocks]_vars

\* A goroutine at a lock operation runs on; a goroutine waiting for a mutex
\* that is released again and again gets it: Unlock lets the waiting readers
\* in before the next writer, and a waiting writer shuts new readers out.
FairLocks ==
    \A t \in Threads :
        /\ SF_vars(Acquire(t))
        /\ WF_vars(Release(t) \/ GoHandlers(t))

LiveLocks == SpecLocks /\ FairLocks

----
Next ==
    \/ \E e \in Feeds :
        \/ EvConnected(e)
        \/ EvDisconnected(e)
        \/ EvLoggedOut(e)
        \/ EvQR(e)
        \/ QRCase(e)
        \/ EvMessage(e)
        \/ Derive(e)
        \/ EvOther(e)
        \/ Fanout(e)
    \/ AddEventHandler
    \/ \E h \in Consumers : HandlerReturn(h)
    \/ \E c \in Callers :
        \/ CallConnect(c)
        \/ ConnectDial(c)
        \/ ConnectSet(c)
        \/ GQStart(c)
        \/ GQCheckConn(c)
        \/ GQConnect(c)
        \/ Expire(c)
        \/ GQReceive(c)
        \/ GQTimeout(c)
        \/ SendCheck(c)
        \/ SendMessage(c)
        \/ GetStatus(c)
        \/ GetPhoneNumber(c)
        \/ StoreIDUser(c)
        \/ DisconnectCheck(c)
        \/ DisconnectClose(c)
        \/ DisconnectSet(c)
        \/ LogoutStart(c)
        \/ LogoutCheck(c)
        \/ LogoutRemote(c)
        \/ LogoutSet(c)
        \/ LogoutDelete(c)
    \/ ReconnectWake
    \/ ReconnectDial
    \/ ReconnectSet

Spec == Init /\ [][Next]_vars

\* The handshake mailbox alone: the QR events and the GenerateQR calls (with the
\* connect step inside them). No other action reads or writes qrChan or qrMutex.
MailboxNext(F, C) ==
    \/ \E e \in F :
        \/ EvQR(e)
        \/ QRCase(e)
        \/ Fanout(e)
    \/ \E c \in C :
        \/ GQStart(c)
        \/ GQCheckConn(c)
        \/ GQConnect(c)
        \/ ConnectDial(c)
        \/ ConnectSet(c)
        \/ Expire(c)
        \/ GQReceive(c)
        \/ GQTimeout(c)

NextMailbox == MailboxNext(Feeds, Callers)

SpecMailbox == Init /\ [][NextMailbox]_vars

\* The connection state and the credential alone: every call and every event
\* but the QR events, the events coming from one feed goroutine.
NextSession ==
    \/ \E e \in {"e1"} :
        \/ EvConnected(e)
        \/ EvDisconnected(e)
        \/ EvLoggedOut(e)
        \/ Fanout(e)
    \/ \E c \in Callers :
        \/ CallConnect(c)
        \/ ConnectDial(c)
        \/ ConnectSet(c)
        \/ GQStart(c)
        \/ GQCheckConn(c)
        \/ GQConnect(c)
        \/ Expire(c)
        \/ GQTimeout(c)
        \/ SendCheck(c)
        \/ SendMessage(c)
        \/ DisconnectCheck(c)
        \/ DisconnectClose(c)
        \/ DisconnectSet(c)
        \/ LogoutStart(c)
        \/ LogoutCheck(c)
        \/ LogoutRemote(c)
        \/ LogoutSet(c)
        \/ LogoutDelete(c)
    \/ ReconnectWake
    \/ ReconnectDial
    \/ ReconnectSet

SpecSession == Init /\ [][NextSession]_vars

\* The session status: GetStatus beside Connect and Logout and the Connected
\* and LoggedOut events of one feed goroutine.
NextStatus ==
    \/ \E e \in {"e1"} :
        \/ EvConnected(e)
        \/ EvLoggedOut(e)
        \/ Fanout(e)
    \/ \E c \in Callers :
        \/ CallConnect(c)
        \/ ConnectDial(c)
        \/ ConnectSet(c)
        \/ LogoutStart(c)
        \/ LogoutCheck(c)
        \/ LogoutRemote(c)
        \/ LogoutSet(c)
        \/ LogoutDelete(c)
        \/ GetStatus(c)
        \/ GetPhoneNumber(c)
        \/ StoreIDUser(c)

SpecStatus == Init /\ [][NextStatus]_vars

\* The event dispatcher: every kind of event from one feed goroutine, the
\* registration of consumers, the consumers' goroutines and the reconnect
\* goroutines of the Disconnected events.
NextDispatch ==
    \/ \E e \in {"e1"} :
        \/ EvConnected(e)
        \/ EvDisconnected(e)
        \/ EvLoggedOut(e)
        \/ EvQR(e)
        \/ QRCase(e)
        \/ EvMessage(e)
        \/ Derive(e)
        \/ EvOther(e)
        \/ Fanout(e)
    \/ AddEventHandler
    \/ \E h \in Consumers : HandlerReturn(h)
    \/ ReconnectWake
    \/ ReconnectDial
    \/ ReconnectSet

SpecDispatch == Init /\ [][NextDispatch]_vars

\* A feed goroutine inside handleEvent runs on; nothing makes a consumer return.
FairDispatch ==
    \A e \in {"e1"} :
        /\ SF_vars(QRLock(e))
        /\ WF_vars(QRDrain(e))
        /\ WF_vars(QRSend(e))
        /\ WF_vars(QRUnlock(e))
        /\ WF_vars(Derive(e))
        /\ WF_vars(Fanout(e))

LiveDispatch == SpecDispatch /\ FairDispatch

\* The scheduling Go guarantees: a runnable goroutine runs, a goroutine waiting
\* for a sync.RWMutex that is released again and again gets it (the mutex hands
\* over to a starving waiter), and the deadline of a context passes.
FairMailbox(F, C) ==
    /\ \A e \in F :
        /\ SF_vars(QRLock(e))
        /\ WF_vars(QRDrain(e))
        /\ WF_vars(QRSend(e))
        /\ WF_vars(QRUnlock(e))
        /\ WF_vars(Fanout(e))
    /\ \A c \in C :
        /\ WF_vars(Expire(c))
        /\ WF_vars(GQReceive(c) \/ GQTimeout(c))

\* Progress of the producers: both feed goroutines and one caller.
NextPublish == MailboxNext(Feeds, {"c1"})

LivePublish == Init /\ [][NextPublish]_vars /\ FairMailbox(Feeds, {"c1"})

\* Progress of the consumers: both callers and one feed goroutine.
NextWait == MailboxNext({"e1"}, Callers)

LiveWait == Init /\ [][NextWait]_vars /\ FairMailbox({"e1"}, Callers)

----
\* Properties.

Range(q) == {q[i] : i \in DOMAIN q}

\* The feed goroutine is between qrMutex.Lock() and the end of its send.
Publishing(e) == epc[e] \in {"qr_drain", "qr_send", "qr_force", "qr_retry"}

\* The feed goroutine is inside the QR case, the lock included.
InQRCase(e) == epc[e] # "idle"

GaveCode == ret.op = "GenerateQR" /\ ret.out = "ok"

Published(k) == k < nextCode /\ \A e \in Feeds : ~(Publishing(e) /\ ecode[e] = k)

\* C2: no code is silently lost. Every published code was received by a
\* GenerateQR call, or evicted by a later publish, or is the code in the slot;
\* and when no publish is under way a non-empty slot holds the code of the
\* publish that finished last (the publishes being serialized, the one that
\* was entered last).
C2_NoCodeLost ==
    /\ \A k \in Codes :
          Published(k) => (got[k] > 0 \/ k \in evicted \/ k \in Range(qrChan))
    /\ ((\A e \in Feeds : ~Publishing(e)) /\ qrChan # <<>>) => qrChan = lastEvt

\* A GenerateQR call has taken the code out of the slot while a publish holds
\* the mutex and is about to drain the slot.
C2_Witness ==
    /\ GaveCode
    /\ qrChan = <<>>
    /\ \E e \in Feeds : epc[e] = "qr_drain" /\ qrMutex = e /\ ecode[e] > ret.code

\* C3: a GenerateQR call only returns a code that was published after the call
\* started, never one that was in the mailbox already.
C3_FreshCodeOnly == GaveCode => ~ret.stale

\* C4: the mailbox holds at most one pending pairing code.
C4_AtMostOne == Len(qrChan) <= 1

\* The second code has replaced the first, unconsumed, in the slot.
C4_Witness == qrChan = <<2>> /\ 1 \in evicted

\* C5: publishing never blocks the producer. A feed goroutine that has entered
\* the QR case leaves it again, and has released qrMutex when it has.
C5_PublishCompletes ==
    /\ \A e \in Feeds : InQRCase(e) ~> ~InQRCase(e)
    /\ [](\A e \in Feeds : ~InQRCase(e) => qrMutex # e)

\* A publish into a full slot is done, with no GenerateQR call anywhere.
C5_Witness ==
    /\ \E e \in Feeds : epc[e] = "qr_unlock" /\ qrChan = <<ecode[e]>>
    /\ evicted # {}
    /\ \A c \in Callers : pc[c] = "idle"
    /\ \A k \in Codes : got[k] = 0

\* C6: no published code is returned by more than one GenerateQR call, and a
\* call that returns a code leaves the slot empty.
C6_DeliveredOnce ==
    /\ \A k \in Codes : got[k] <= 1
    /\ GaveCode => qrChan = <<>>

\* One of two concurrent GenerateQR calls got the code; the other still waits.
C6_Witness ==
    /\ GaveCode
    /\ \E c \in Callers : c # ret.who /\ pc[c] = "gq_wait"

\* The step in which caller c leaves the select of GenerateQR.
LeavesWait(c) == pc[c] = "gq_wait" /\ pc'[c] # "gq_wait"

BeginsSend(c) ==
    /\ pc[c] = "idle"
    /\ \/ pc'[c] = "sd_send"
       \/ ret'.who = c /\ ret'.op = "Send"

\* C9: a Send that is invoked while the client is not connected returns the
\* not-connected error, and no Send that returns it has called SendMessage.
C9_SendNotConnected ==
    /\ [][\A c \in Callers :
            (BeginsSend(c) /\ ~connected) =>
               (ret'.who = c /\ ret'.out = "NotConnected" /\ ret'.trace = <<>>)]_vars
    /\ []((ret.op = "Send" /\ ret.out = "NotConnected") => ret.trace = <<>>)

\* Scenario E: a Send has returned the not-connected error.
C9_Witness == ret.op = "Send" /\ ret.out = "NotConnected" /\ ~connected

\* C10 as stated: the client is connected only when a credential exists.
C10_ConnectedImpliesPaired == connected => paired

\* C10: a Logout that reaches the delete of the credential after the remote
\* logout has marked the client not connected in between. (The client does
\* connect with no credential: that is how a session is paired.)
C10_LogoutMarksBeforeDelete ==
    (/\ ret.op = "Logout"
     /\ \E i \in DOMAIN ret.trace : ret.trace[i] = "client.Logout"
     /\ \E i \in DOMAIN ret.trace : ret.trace[i] = "deviceStore.Delete")
    => ret.trace = <<"client.Logout", "setConnected(false)", "deviceStore.Delete">>

\* A Logout of a connected session has deleted the credential.
C10_Witness ==
    /\ ret.op = "Logout"
    /\ ret.out = "ok"
    /\ Len(ret.trace) = 3
    /\ ~paired

\* The step in which caller c begins the call o.
Begins(c, o) ==
    /\ pc[c] = "idle"
    /\ \/ pc'[c] # "idle" /\ op'[c] = o
       \/ ret'.who = c /\ ret'.op = o

\* A step of caller c inside its call o.
Acts(c, o) ==
    \/ Begins(c, o)
    \/ pc[c] # "idle" /\ op[c] = o /\ pc'[c] # pc[c]

Has(tr, x) == \E i \in DOMAIN tr : tr[i] = x

\* C11: a Logout whose remote logout fails returns the error with the delete of
\* the credential never called, and no step of a Logout up to and including the
\* remote logout changes the credential or the connection state: the session it
\* found paired and connected is left so.
C11_RemoteLogoutFails ==
    /\ []((ret.op = "Logout" /\ ret.out = "LogoutFailed") =>
             ret.trace = <<"client.Logout">>)
    /\ [][\A c \in Callers :
            (Acts(c, "Logout") /\ pc[c] \in {"idle", "lo_conn", "lo_remote"}) =>
               UNCHANGED <<connected, paired>>]_vars
    /\ [][\A c \in Callers :
            (pc[c] = "lo_remote" /\ pc'[c] = "idle") =>
               (ret'.who = c /\ ret'.out = "LogoutFailed")]_vars

\* The remote logout of a paired, connected session has failed.
C11_Witness ==
    /\ ret.op = "Logout"
    /\ ret.out = "LogoutFailed"
    /\ paired
    /\ connected

\* C12: a Logout on a session with no credential returns success at once, with
\* neither the remote logout nor the delete called and the connection state
\* as it was; and a Logout that returns success leaves no credential, so that
\* the next one is this no-op.
C12_LogoutWithoutCredential ==
    /\ [][\A c \in Callers :
            (Begins(c, "Logout") /\ ~paired) =>
               /\ ret'.who = c
               /\ ret'.op = "Logout"
               /\ ret'.out = "ok"
               /\ ret'.trace = <<>>
               /\ UNCHANGED <<connected, paired>>]_vars
    /\ []((ret.op = "Logout" /\ ret.out = "ok") => ~paired)

\* A Logout was a no-op on a connected session that has no credential.
C12_Witness ==
    /\ ret.op = "Logout"
    /\ ret.out = "ok"
    /\ ret.trace = <<>>
    /\ connected

\* C13: a Logout that found the session paired and connected, and whose remote
\* logout and delete both succeed, calls the remote logout, marks the state
\* not connected and then deletes the credential; when it returns the credential
\* is gone and the state is not connected, unless another goroutine has set
\* the state since.
C13_LogoutSucceeds ==
    (ret.op = "Logout" /\ ret.out = "ok" /\ Has(ret.trace, "client.Logout")) =>
       /\ ret.trace = <<"client.Logout", "setConnected(false)", "deviceStore.Delete">>
       /\ ~paired
       /\ writer = ret.who => ~connected
       /\ connected => writer \notin {ret.who, NoOne}

\* The Logout of a paired, connected session is done, with no other writer.
C13_Witness ==
    /\ ret.op = "Logout"
    /\ ret.out = "ok"
    /\ Has(ret.trace, "client.Logout")
    /\ writer = ret.who
    /\ ~connected
    /\ ~paired

\* The reconnect goroutines that have not ended.
Pending == reconn["sleep"] + reconn["dial"] + reconn["set"]

\* The step in which handleEvent is called with an event of kind k.
Handles(e, k) == epc[e] = "idle" /\ evt'[e] = k

\* C14: a Disconnected event starts exactly one reconnect goroutine; a goroutine
\* calls the transport connect once, after its delay; when that fails the
\* goroutine ends with the state as it was and nothing is scheduled again; and
\* the state becomes connected only by a Connect or GenerateQR of a caller, by
\* a Connected event, or by a reconnect goroutine whose connect succeeded.
C14_OneReconnectAttempt ==
    [][/\ \A e \in Feeds :
            Handles(e, "Disconnected") => reconn' = [reconn EXCEPT !["sleep"] = @ + 1]
       /\ reconn'["sleep"] > reconn["sleep"] => \E e \in Feeds : Handles(e, "Disconnected")
       /\ reconn'["dial"] > reconn["dial"] =>
             reconn' = [reconn EXCEPT !["sleep"] = @ - 1, !["dial"] = @ + 1]
       /\ (reconn'["dial"] < reconn["dial"] /\ reconn'["set"] = reconn["set"]) =>
             (Pending' = Pending - 1 /\ UNCHANGED <<connected, writer>>)
       /\ (connected' /\ ~connected) =>
             \/ \E c \in Callers : writer' = c /\ op[c] \in {"Connect", "GenerateQR"}
             \/ \E e \in Feeds : writer' = e /\ Handles(e, "Connected")
             \/ writer' = "reconnect" /\ reconn'["set"] = reconn["set"] - 1]_vars

\* The reconnect goroutine of a Disconnected event is at its transport connect.
C14_Witness ==
    /\ reconn["dial"] = 1
    /\ ~connected
    /\ writer \in Feeds

\* C15: no step of a Disconnect or of a Logout, and no LoggedOut event, starts
\* a reconnect goroutine; only a Disconnected event does.
C15_OnlyDisconnectedReconnects ==
    [][/\ \A c \in Callers :
            (Acts(c, "Disconnect") \/ Acts(c, "Logout")) => UNCHANGED reconn
       /\ \A e \in Feeds : Handles(e, "LoggedOut") => UNCHANGED reconn
       /\ Pending' > Pending => \E e \in Feeds : Handles(e, "Disconnected")]_vars

\* A Disconnect has torn the connection down and no reconnect goroutine exists.
C15_Witness ==
    /\ ret.op = "Disconnect"
    /\ Has(ret.trace, "client.Disconnect")
    /\ Pending = 0
    /\ ~connected

\* C16: a Connect on a connected client returns success without calling the
\* transport; otherwise it calls the transport connect, and when that succeeds
\* it marks the state connected as its last step, so that the state is
\* connected when it returns, and when that fails it returns the error and has
\* not written the state.
C16_Connect ==
    /\ [][\A c \in Callers :
            Begins(c, "Connect") =>
               IF connected
               THEN /\ ret'.who = c
                    /\ ret'.out = "ok"
                    /\ ret'.trace = <<>>
                    /\ UNCHANGED connected
               ELSE pc'[c] = "cn_dial"]_vars
    /\ [][\A c \in Callers :
            (Acts(c, "Connect") /\ pc[c] = "cn_dial") => UNCHANGED connected]_vars
    /\ [](ret.op = "Connect" =>
            \/ ret.out = "ok" /\ ret.trace = <<>>
            \/ /\ ret.out = "ok"
               /\ ret.trace = <<"client.Connect", "setConnected(true)">>
               /\ connected
            \/ ret.out = "ConnectFailed" /\ ret.trace = <<"client.Connect">>)

\* A Connect has called the transport and marked the state.
C16_Witness ==
    /\ ret.op = "Connect"
    /\ ret.out = "ok"
    /\ Has(ret.trace, "client.Connect")
    /\ connected

\* C17: a Disconnect on a client that is not connected returns without calling
\* the transport; otherwise it tears the transport down and marks the state
\* not connected as its last step; it returns success in every case.
C17_Disconnect ==
    /\ [][\A c \in Callers :
            Begins(c, "Disconnect") =>
               IF ~connected
               THEN /\ ret'.who = c
                    /\ ret'.trace = <<>>
                    /\ UNCHANGED connected
               ELSE pc'[c] = "dc_close"]_vars
    /\ [](ret.op = "Disconnect" =>
            /\ ret.out = "ok"
            /\ \/ ret.trace = <<>>
               \/ /\ ret.trace = <<"client.Disconnect", "setConnected(false)">>
                  /\ ~connected)

\* A Disconnect has torn the transport down.
C17_Witness ==
    /\ ret.op = "Disconnect"
    /\ ret.out = "ok"
    /\ Len(ret.trace) = 2
    /\ ~connected
    /\ writer = ret.who

\* The step in which handleEvent returns.
Returns(e) == epc[e] # "idle" /\ epc'[e] = "idle"

\* One goroutine for each registered consumer, in the order of the registry,
\* with the event k.
OncePerConsumer(k) == [i \in 1..Len(handlers) |-> <<handlers[i], k>>]

\* C18: handleEvent keeps the event it was called with, returns only through
\* the fan-out, and the fan-out starts exactly one goroutine with that event
\* for every consumer in the registry at that time; goroutines are started by
\* handleEvent's two loops only; and every event, of whatever kind, gets to its
\* fan-out.
C18_FanoutToAll ==
    /\ [][\A e \in Feeds :
            /\ Returns(e) =>
                 /\ epc[e] = "fanout"
                 /\ evt[e] \in Kinds
                 /\ started' = OncePerConsumer(evt[e])
                 /\ UNCHANGED handlers
            /\ (epc[e] # "idle" /\ ~Returns(e)) => evt'[e] = evt[e]]_vars
    /\ [][started' # started =>
            \E e \in Feeds : epc[e] \in {"derive", "fanout"} /\ epc'[e] # epc[e]]_vars
    /\ \A e \in Feeds : (epc[e] # "idle") ~> (epc[e] = "fanout")

\* An event of an unknown kind has been handed to both registered consumers.
C18_Witness ==
    /\ started = <<<<1, "Other">>, <<2, "Other">>>>
    /\ \A e \in Feeds : epc[e] = "idle"

\* C19: with no consumer ever made to return, handleEvent still returns; a
\* fan-out that finds consumers still running starts a goroutine for every
\* registered consumer all the same; and the feed can hand in the next event,
\* whose case marks the connection state, whatever the consumers do.
C19_StuckConsumer ==
    /\ \A e \in Feeds : (epc[e] # "idle") ~> (epc[e] = "idle")
    /\ [][\A e \in Feeds :
            (Returns(e) /\ busy # {}) =>
               /\ Len(started') = Len(handlers)
               /\ {handlers[i] : i \in 1..Len(handlers)} \subseteq busy']_vars
    /\ [](\A e \in Feeds :
            epc[e] = "idle" =>
               (ENABLED EvConnected(e) /\ ENABLED EvLoggedOut(e) /\ ENABLED EvQR(e)))
    /\ [][\A e \in Feeds : Handles(e, "Connected") => connected']_vars

\* A Connected event has marked the state while a consumer is still running.
C19_Witness ==
    /\ epc["e1"] = "fanout"
    /\ evt["e1"] = "Connected"
    /\ connected
    /\ busy = {1, 2}

\* The events whose case writes the connection state.
Lifecycle == {"Connected", "Disconnected", "LoggedOut"}

\* C20: the case of a Connected, Disconnected or LoggedOut event writes the
\* connection state in the step in which handleEvent takes the event, before
\* any goroutine of its fan-out is started; at the fan-out and when handleEvent
\* returns the state is the one of the event (connected for Connected, not
\* connected for the others) unless another goroutine has written it since.
C20_StateBeforeFanout ==
    /\ [][\A e \in Feeds : \A k \in Lifecycle :
            Handles(e, k) =>
               /\ connected' = (k = "Connected")
               /\ writer' = e
               /\ UNCHANGED <<started, busy>>]_vars
    /\ [](\A e \in Feeds :
            (epc[e] = "fanout" /\ evt[e] \in Lifecycle /\ writer = e) =>
               connected = (evt[e] = "Connected"))
    /\ [][\A e \in Feeds :
            (Returns(e) /\ evt[e] \in Lifecycle /\ writer' = e) =>
               (connected' = (evt[e] = "Connected") /\ started' = OncePerConsumer(evt[e]))]_vars

\* A Disconnected event has been handed to a consumer with the state not connected.
C20_Witness ==
    /\ started = <<<<1, "Disconnected">>>>
    /\ epc["e1"] = "idle"
    /\ ~connected
    /\ writer = "e1"

\* C21: a GenerateQR that is called on a logged-in session returns the
\* already-logged-in error in its first step: it has not called Connect, has
\* not waited, and the mailbox and the connection state are as they were.
C21_AlreadyLoggedIn ==
    /\ [][\A c \in Callers :
            (Begins(c, "GenerateQR") /\ paired) =>
               /\ ret'.who = c
               /\ ret'.out = "AlreadyLoggedIn"
               /\ ret'.code = EmptyCode
               /\ ret'.trace = <<>>
               /\ UNCHANGED <<qrChan, connected>>]_vars
    /\ [](\A c \in Callers : (op[c] = "GenerateQR" /\ pc[c] # "idle") => ~paired)

\* The call was refused with a code in the mailbox, which is still there.
C21_Witness ==
    /\ ret.op = "GenerateQR"
    /\ ret.out = "AlreadyLoggedIn"
    /\ qrChan # <<>>
    /\ paired

\* The traces of a GenerateQR whose connect step was skipped or succeeded.
PastConnect == {<<>>, <<"client.Connect", "setConnected(true)">>}

\* C22 as stated, its last part: GenerateQR returns the timeout error only when
\* no code had arrived by the deadline.
C22_TimeoutOnlyWithoutCode ==
    [][\A c \in Callers : (LeavesWait(c) /\ ret'.out = "Timeout") => ~gq[c].due]_vars

\* C22: a GenerateQR whose connect step fails returns the connect-failed error
\* from that step, having neither waited nor touched the mailbox; it returns
\* the timeout error, a different one, only from the select, after its connect
\* step was skipped or succeeded and once its context is done, and leaves the
\* mailbox as it is (a code may be in it).
C22_DistinctErrors ==
    /\ [][\A c \in Callers :
            (op[c] = "GenerateQR" /\ pc[c] = "cn_dial" /\ pc'[c] # "cn_dial") =>
               \/ pc'[c] = "cn_set"
               \/ /\ ret'.who = c
                  /\ ret'.out = "ConnectFailed"
                  /\ ret'.trace = <<"client.Connect">>
                  /\ ~gq[c].waiting
                  /\ UNCHANGED qrChan]_vars
    /\ [][(ret'.op = "GenerateQR" /\ ret'.out = "ConnectFailed") =>
            pc[ret'.who] = "cn_dial"]_vars
    /\ [][(ret'.op = "GenerateQR" /\ ret'.out = "Timeout") =>
            /\ pc[ret'.who] = "gq_wait"
            /\ expired[ret'.who]
            /\ ret'.trace \in PastConnect
            /\ UNCHANGED qrChan]_vars

\* The connect step failed with a code in the mailbox, which is still there.
C22_Witness ==
    /\ ret.op = "GenerateQR"
    /\ ret.out = "ConnectFailed"
    /\ qrChan # <<>>

\* C27: a GenerateQR that receives the empty code returns the empty-code error
\* and no code, the empty code is taken out of the mailbox, and no call returns
\* the empty code as a code.
C27_EmptyCode ==
    /\ [][\A c \in Callers :
            (LeavesWait(c) /\ qrChan' # qrChan /\ Head(qrChan) = EmptyCode) =>
               /\ ret'.who = c
               /\ ret'.out = "EmptyCode"
               /\ ret'.code = EmptyCode
               /\ qrChan' = Tail(qrChan)]_vars
    /\ []((ret.op = "GenerateQR" /\ ret.out = "EmptyCode") => qrChan = <<>>)
    /\ [](GaveCode => ret.code # EmptyCode)

\* The empty code was received and the mailbox is empty.
C27_Witness ==
    /\ ret.op = "GenerateQR"
    /\ ret.out = "EmptyCode"
    /\ qrChan = <<>>
    /\ lastEvt = <<EmptyCode>>

\* C26: a Send that finds the client connected goes on to SendMessage; a Send
\* that returns a message identifier or the send-failed error has called
\* SendMessage exactly once, the identifier is one the protocol client assigns
\* and comes without an error, the error comes without an identifier; and no
\* step of a Send changes the connection state.
C26_SendDelegatesOnce ==
    /\ [][\A c \in Callers :
            (Begins(c, "Send") /\ connected) => pc'[c] = "sd_send"]_vars
    /\ [][\A c \in Callers :
            (pc[c] = "sd_send" /\ pc'[c] # "sd_send") =>
               /\ ret'.who = c
               /\ ret'.op = "Send"
               /\ ret'.out \in {"ok", "SendFailed"}
               /\ ret'.trace = <<"client.SendMessage">>
               /\ (ret'.out = "ok") = (ret'.code \in MsgIds)
               /\ (ret'.out = "SendFailed") = (ret'.code = EmptyCode)]_vars
    /\ []((ret.op = "Send" /\ ret.out # "NotConnected") =>
             ret.trace = <<"client.SendMessage">>)
    /\ [][\A c \in Callers : Acts(c, "Send") => UNCHANGED <<connected, writer>>]_vars

\* The underlying send failed on a connected client, which is still connected.
C26_Witness ==
    /\ ret.op = "Send"
    /\ ret.out = "SendFailed"
    /\ ret.trace = <<"client.SendMessage">>
    /\ connected

\* C30 as stated: whenever SendMessage is invoked the connection state is
\* connected.
C30_SendOnlyWhenConnected ==
    [][\A c \in Callers : (pc[c] = "sd_send" /\ pc'[c] # "sd_send") => connected]_vars

\* C30: a Send delegates to SendMessage only after it has read the connection
\* state as connected, in the step before; the state may have changed by the
\* time SendMessage is invoked.
C30_CheckedBeforeSend ==
    /\ [][\A c \in Callers :
            (pc'[c] = "sd_send" /\ pc[c] # "sd_send") =>
               (pc[c] = "idle" /\ connected /\ op'[c] = "Send")]_vars
    /\ [][\A c \in Callers :
            (Begins(c, "Send") /\ ~connected) => pc'[c] = "idle"]_vars
    /\ []((ret.op = "Send" /\ Has(ret.trace, "client.SendMessage")) =>
             ret.out \in {"ok", "SendFailed"})

\* SendMessage was invoked, and returned an identifier, on a client that had
\* been marked not connected after the check.
C30_Witness ==
    /\ ret.op = "Send"
    /\ ret.out = "ok"
    /\ ~connected

\* C25 as stated: GetStatus reports "connected" together with the account
\* identifier when the device credential exists, and "disconnected" with no
\* account otherwise.
C25_StatusFollowsCredential ==
    (ret.op = "GetStatus") =>
        IF paired
        THEN ret.out = "connected" /\ ret.phone = Account
        ELSE ret.out = "disconnected" /\ ret.phone = ""

\* C23: a Message event whose conversation text or, failing that, extended
\* text is not empty makes handleEvent start, for every registered consumer,
\* one goroutine with the derived message (the sender and that text) and then
\* one with the original event; a Message with both texts empty goes to the
\* fan-out of the original event alone; and nothing else starts a goroutine
\* with a derived message.
C23_DerivedMessage ==
    /\ [][\A e \in Feeds :
            Handles(e, "Message") =>
               /\ emsg'[e][1] \in Senders
               /\ epc'[e] = IF emsg'[e][2] = "" /\ emsg'[e][3] = ""
                            THEN "fanout" ELSE "derive"
               /\ UNCHANGED started]_vars
    /\ [][\A e \in Feeds :
            (epc[e] = "derive" /\ epc'[e] # "derive") =>
               LET from == emsg[e][1]
                   body == IF emsg[e][2] # "" THEN emsg[e][2] ELSE emsg[e][3]
               IN  /\ body # ""
                   /\ started' = OncePerConsumer("WhatsAppMessage:" \o from \o ":" \o body)
                   /\ epc'[e] = "fanout"
                   /\ evt'[e] = "Message"
                   /\ emsg'[e] = emsg[e]]_vars
    /\ [][\A e \in Feeds :
            (Returns(e) /\ evt[e] = "Message") =>
               started' = OncePerConsumer("Message")]_vars
    /\ [][(\E i \in DOMAIN started' : started'[i][2] \notin Kinds) =>
            \/ started' = started
            \/ \E e \in Feeds : epc[e] = "derive" /\ evt[e] = "Message"]_vars

\* Both consumers were handed the message made of the extended text of a
\* Message that has no conversation text.
C23_Witness ==
    /\ started = <<<<1, "WhatsAppMessage:bob:yo">>, <<2, "WhatsAppMessage:bob:yo">>>>
    /\ emsg["e1"] = <<"bob", "", "yo">>
    /\ epc["e1"] = "fanout"

\* C28: every step leaves the registry as it is or appends one consumer to it,
\* so the registry of an earlier state is a prefix of that of any later state;
\* the steps of handleEvent and of the consumers' goroutines leave it unchanged.
C28_RegistryAppendOnly ==
    /\ [][\/ handlers' = handlers
          \/ /\ Len(handlers') = Len(handlers) + 1
             /\ SubSeq(handlers', 1, Len(handlers)) = handlers]_vars
    /\ [][(\E e \in Feeds : epc'[e] # epc[e]) => handlers' = handlers]_vars
    /\ [][(started' # started \/ busy' # busy) => handlers' = handlers]_vars
    /\ [](\A i, j \in DOMAIN handlers : handlers[i] = handlers[j] => i = j)

\* A second consumer was registered after an event had been handed to the first.
C28_Witness ==
    /\ handlers = <<1, 2>>
    /\ started = <<<<1, "Other">>>>

C24_DispatchInOrder ==
    /\ [](\A e \in Feeds : (epc[e] = "idle") = (evt[e] = "none"))
    /\ [][\A e \in Feeds :
            evt'[e] # evt[e] =>
               \/ /\ epc[e] = "idle"
                  /\ epc'[e] # "idle"
                  /\ evt'[e] \in Kinds
                  /\ UNCHANGED <<started, busy>>
               \/ /\ Returns(e)
                  /\ evt'[e] = "none"]_vars
    /\ [][\A e \in Feeds :
            Returns(e) =>
               /\ Len(started') = Len(handlers)
               /\ \A i \in 1..Len(handlers) : started'[i] = <<handlers[i], evt[e]>>]_vars
    /\ [][started' # started =>
            \E e \in Feeds :
               /\ epc[e] \in {"derive", "fanout"}
               /\ epc'[e] # epc[e]
               /\ \A i \in DOMAIN started' :
                     IF epc[e] = "fanout"
                     THEN started'[i][2] = evt[e]
                     ELSE evt[e] = "Message" /\ started'[i][2] \notin Kinds]_vars

\* The consumer's goroutine for an event has been started, and the feed has the
\* next event in hand, not yet handed on.
C24_Witness ==
    /\ started = <<<<1, "Other">>>>
    /\ evt["e1"] = "Connected"
    /\ epc["e1"] = "fanout"
    /\ handlers = <<1>>

\* No call, no handleEvent and no reconnect goroutine is under way.
Quiet ==
    /\ \A c \in Callers : pc[c] = "idle"
    /\ \A e \in Feeds : epc[e] = "idle"
    /\ Pending = 0

\* C31 as stated: a Connect whose transport connect succeeded, and whose
\* transport went down before the Connect marked the state, does not leave the
\* state connected; and whenever nothing is under way the connection state is
\* the last outcome of the transport.
C31_ConnectNeverOverwrites ==
    /\ [][\A c \in Callers :
            (pc[c] = "cn_set" /\ pc'[c] # "cn_set" /\ transport = "down") =>
               ~connected']_vars
    /\ [](Quiet => (connected = (transport = "up")))

\* C32 as stated: once a caller's Disconnect or Logout has marked the state not
\* connected and returned, and while no caller has a call under way, the state
\* stays not connected (a Connected event of the protocol layer apart): no
\* reconnect goroutine marks it connected.
C32_StaysDisconnected ==
    [][(/\ ~connected
        /\ writer \in Callers
        /\ \A c \in Callers : pc[c] = "idle"
        /\ ~(\E e \in Feeds : Handles(e, "Connected"))) => ~connected']_vars

\* The goroutines that have passed the check of Connect and have client.Connect()
\* before them.
Dialing == Cardinality({c \in Callers : pc[c] = "cn_dial"}) + reconn["dial"]

\* C33 as stated: client.Connect() is never invoked while the state is
\* connected, and no two Connect calls are both on their way to it.
C33_OneDialPerOutage ==
    /\ [][\A c \in Callers :
            (pc[c] = "cn_dial" /\ pc'[c] # "cn_dial") => ~connected]_vars
    /\ [][reconn'["dial"] < reconn["dial"] => ~connected]_vars
    /\ [](Dialing <= 1)

\* C34: a reconnect goroutine whose delay ends with the state connected ends
\* there, without client.Connect() and with the state, its writer and the
\* transport as they were; one whose delay ends with the state not connected
\* goes on to client.Connect(), and when that succeeds the transport is up and
\* the goroutine marks the state connected.
C34_ReconnectChecksState ==
    /\ [][reconn'["sleep"] < reconn["sleep"] =>
            /\ reconn' = IF connected
                         THEN [reconn EXCEPT !["sleep"] = @ - 1]
                         ELSE [reconn EXCEPT !["sleep"] = @ - 1, !["dial"] = @ + 1]
            /\ UNCHANGED <<connected, writer, transport>>]_vars
    /\ [][reconn'["set"] > reconn["set"] =>
            /\ reconn' = [reconn EXCEPT !["dial"] = @ - 1, !["set"] = @ + 1]
            /\ transport' = "up"
            /\ UNCHANGED <<connected, writer>>]_vars
    /\ [][reconn'["set"] < reconn["set"] =>
            /\ connected'
            /\ writer' = "reconnect"
            /\ Pending' = Pending - 1]_vars

\* A reconnect goroutine has connected the transport and marked the state.
C34_Witness ==
    /\ connected
    /\ writer = "reconnect"
    /\ transport = "up"
    /\ Pending = 0

\* C35: a feed that has done the drain holds qrMutex and finds the channel
\* empty, its send puts the new code in at the first try, no feed ever gets to
\* the forced drain or to the second send, and no code is dropped by a publish.
C35_SendSucceedsFirstTry ==
    /\ [](\A e \in Feeds : epc[e] = "qr_send" => (qrChan = <<>> /\ qrMutex = e))
    /\ [](\A e \in Feeds : epc[e] \notin {"qr_force", "qr_retry"})
    /\ [](dropped = {})
    /\ [][\A e \in Feeds :
            (epc[e] = "qr_send" /\ epc'[e] # "qr_send") =>
               (epc'[e] = "qr_unlock" /\ qrChan' = <<ecode[e]>>)]_vars

\* The second code went in at the first try after the drain evicted the first,
\* with the other feed waiting for the mutex.
C35_Witness ==
    /\ epc["e1"] = "qr_unlock"
    /\ ecode["e1"] = 2
    /\ qrChan = <<2>>
    /\ evicted = {1}
    /\ epc["e2"] = "qr_lock"

\* C36 as stated: the Logout of a paired, not connected session that skipped
\* the remote logout returns success with the credential deleted and the state
\* not connected.
C36_SkipsRemoteAndSucceeds ==
    [][\A c \in Callers :
         (/\ pc[c] = "lo_delete" /\ pc'[c] # "lo_delete"
          /\ trace[c] = <<>> /\ paired /\ ~connected) =>
            (ret'.out = "ok" /\ ~paired' /\ ~connected')]_vars

\* C36: a Logout that reads not connected goes to the credential delete without
\* the remote logout and without a write of the connection state; the delete
\* of a present credential is the call's only operation and its outcome is the
\* call's: success with the credential gone, or the delete's error with the
\* credential kept. None of these steps changes the connection state.
C36_SkipsRemoteThenDeletes ==
    /\ [][\A c \in Callers :
            (pc[c] = "lo_conn" /\ pc'[c] # "lo_conn") =>
               /\ pc'[c] = (IF connected THEN "lo_remote" ELSE "lo_delete")
               /\ trace'[c] = <<>>
               /\ UNCHANGED <<connected, writer, transport, paired>>]_vars
    /\ [][\A c \in Callers :
            (/\ pc[c] = "lo_delete" /\ pc'[c] # "lo_delete"
             /\ trace[c] = <<>> /\ paired) =>
               /\ pc'[c] = "idle"
               /\ ret'.who = c /\ ret'.op = "Logout"
               /\ ret'.trace = <<"deviceStore.Delete">>
               /\ \/ ret'.out = "ok" /\ ~paired'
                  \/ ret'.out = "DeleteFailed" /\ paired'
               /\ UNCHANGED <<connected, writer, transport>>]_vars

\* A Logout of a paired, not connected session has returned success after the
\* delete alone.
C36_Witness ==
    /\ ret.op = "Logout" /\ ret.out = "ok"
    /\ ret.trace = <<"deviceStore.Delete">>
    /\ ~connected /\ ~paired

\* A goroutine is waiting for a mutex: its next operation is a Lock or an RLock.
Acquiring(t) == run[t] # <<>> /\ Head(run[t])[1] \in {"Lock", "RLock"}

\* C37: no goroutine holds two of connectedMu, handlersMutex and qrMutex, no
\* goroutine asks for a mutex while it holds one, and every call of Connect,
\* Disconnect, Logout, Send, IsConnected, AddEventHandler and handleEvent that
\* has begun makes all its lock operations and returns, a handler's call of
\* AddEventHandler or Send included.
C37_NoDeadlock ==
    /\ [](\A t \in Threads : Cardinality(Held(t)) <= 1)
    /\ [](\A t \in Threads : Acquiring(t) => Held(t) = {})
    /\ \A t \in Threads : (run[t] # <<>>) ~> (run[t] = <<>>)

\* A handler's goroutine waits in AddEventHandler for handlersMutex while the
\* fan-out that started it still reads the registry and the other feed holds
\* qrMutex; a caller in setConnected has shut new readers of the state out.
C37_Witness ==
    /\ mutex["handlersMutex"].pending = "h1"
    /\ "e1" \in mutex["handlersMutex"].r
    /\ mutex["qrMutex"].w = "e2"
    /\ mutex["connectedMu"].pending = "c1"

====
